---- MODULE Spec2Model ----
(***************************************************************************)
(* A model of the Instagram account analyzer: the edge locator             *)
(* (InstagramAnalyzer._find_edges), the record normalizer                  *)
(* (extract_from_response / download_profile), the image download loop,    *)
(* the aggregator (analyze) and the poster panel selection.                *)
(***************************************************************************)
EXTENDS Integers, Sequences, FiniteSets, TLC

VARIABLES
    prog,           \* the program being run: "instagram_analyzer" or "download_profile"
    args,           \* the command line main() parsed; NoArgs when main() is not run
    data,           \* the JSON document the edge locator is called on
    result,         \* <<>> before _find_edges returned, <<r>> once it returned r
    posts_data,     \* InstagramAnalyzer.posts_data
    ext,            \* how the last extract_from_response or load_from_metadata call ended
    images,         \* the image files of the download directory: name -> bytes
    metadata_file,  \* metadata.json: <<>> when absent, <<posts>> when written
    dl_pc,          \* download_images: "idle", or "loop" inside the for loop
    dl_i,           \* download_images: the position of the loop in posts_data
    run,            \* the number of download_images runs started
    fetches,        \* the requests.get calls made: <<run, file name, url>>
    log,            \* the lines download_images printed: <<run, file name, outcome>>
    sleeps,         \* the positions in fetches of the calls followed by time.sleep(delay)
    an,             \* how the last analyze call ended
    report,         \* what the last analyze call returned: <<>> for None
    report_file,    \* analytics_report.json: <<>> when absent
    chart_file,     \* analytics_charts.png exists
    report_writes,  \* the number of times analytics_report.json was written
    panels,         \* analytics_poster.png: its rows and insight, <<>> when absent
    panels_v2,      \* analytics_poster_v2.png: its rows and insight, <<>> when absent
    pf_pc,          \* download_profile: "idle", "loop", "done" or "error"
    pf_src,         \* download_profile: the posts profile.get_posts() yields
    pf_i,           \* download_profile: the position of the loop in pf_src
    pf_posts,       \* download_profile: its local posts_data
    count,          \* download_profile: count
    max_posts,      \* download_profile: max_posts, 0 for None
    pf_log          \* the lines download_profile printed: <<shortcode, outcome>>

procVars == <<prog, args>>
findVars == <<data, result>>
diskVars == <<images, metadata_file>>
dlVars == <<dl_pc, dl_i, run, fetches, log, sleeps>>
anVars == <<an, report, report_file, chart_file, report_writes>>
posterVars == <<panels, panels_v2>>
pfVars == <<pf_pc, pf_src, pf_i, pf_posts, count, max_posts, pf_log>>
vars == <<prog, args, data, result, posts_data, ext, images, metadata_file,
          dl_pc, dl_i, run, fetches, log, sleeps, an, report, report_file, chart_file,
          report_writes,
          panels, panels_v2,
          pf_pc, pf_src, pf_i, pf_posts, count, max_posts, pf_log>>

(***************************************************************************)
(* JSON values.  A mapping keeps its keys in insertion order (keys[j] is   *)
(* bound to kids[j]); a sequence has kids only; a scalar carries val, a    *)
(* record whose one field names its type.                                  *)
(***************************************************************************)
NoVal == [none |-> TRUE]

Str(s) == [k |-> "scalar", keys |-> <<>>, kids |-> <<>>, val |-> [s |-> s]]
Num(n) == [k |-> "scalar", keys |-> <<>>, kids |-> <<>>, val |-> [i |-> n]]
Bool(b) == [k |-> "scalar", keys |-> <<>>, kids |-> <<>>, val |-> [b |-> b]]
Null == [k |-> "scalar", keys |-> <<>>, kids |-> <<>>, val |-> [null |-> TRUE]]
\* a string held as its characters (a caption)
Text(chars) == [k |-> "scalar", keys |-> <<>>, kids |-> <<>>, val |-> [t |-> chars]]
List(items) == [k |-> "list", keys |-> <<>>, kids |-> items, val |-> NoVal]
Dict(ks, vs) == [k |-> "dict", keys |-> ks, kids |-> vs, val |-> NoVal]

EmptyList == List(<<>>)
EmptyDict == Dict(<<>>, <<>>)

IsDict(v) == v.k = "dict"
IsList(v) == v.k = "list"
IsInt(v) == v.k = "scalar" /\ DOMAIN v.val = {"i"}
IsStr(v) == v.k = "scalar" /\ DOMAIN v.val = {"s"}
IsText(v) == v.k = "scalar" /\ DOMAIN v.val = {"t"}

\* key in d, for a mapping d
HasKey(d, key) == \E j \in 1..Len(d.keys) : d.keys[j] = key

\* d[key], for a mapping d that has the key
Lookup(d, key) == d.kids[CHOOSE j \in 1..Len(d.keys) : d.keys[j] = key]

\* d.get(key, default), for a mapping d
DictGet(d, key, default) == IF HasKey(d, key) THEN Lookup(d, key) ELSE default

\* Python truthiness of a JSON value: an empty sequence, an empty mapping,
\* an empty string, zero, false and null are false
Truthy(v) ==
    CASE v.k = "list" -> v.kids # <<>>
      [] v.k = "dict" -> v.keys # <<>>
      [] IsStr(v) -> v.val.s # ""
      [] IsText(v) -> v.val.t # <<>>
      [] IsInt(v) -> v.val.i # 0
      [] DOMAIN v.val = {"b"} -> v.val.b
      [] OTHER -> FALSE

(***************************************************************************)
(* InstagramAnalyzer._find_edges                                           *)
(***************************************************************************)
RECURSIVE _find_edges(_), FindInValues(_)

\* the loops with `return self._find_edges(value)` in place of lines 67-69:
\* only the first value is ever searched
FindInValues_first_only(items) ==
    IF items = <<>> THEN EmptyList ELSE _find_edges(Head(items))

\* the loops of lines 66-69 and 71-74: the first truthy result over the
\* values in iteration order, falling through to `return []`
FindInValues(items) ==
    IF items = <<>> THEN EmptyList
    ELSE LET r == _find_edges(Head(items))
         IN IF Truthy(r) THEN r ELSE FindInValues(Tail(items))

\* _find_edges without the `return []` of line 75 on the scalar path: the
\* function falls off its end and returns None
_find_edges_no_default(d) ==
    IF d.k = "dict"
    THEN IF HasKey(d, "edges") THEN Lookup(d, "edges") ELSE FindInValues(d.kids)
    ELSE IF d.k = "list" THEN FindInValues(d.kids)
    ELSE Null

_find_edges(d) ==
    IF d.k = "dict"
    THEN IF HasKey(d, "edges") THEN Lookup(d, "edges") ELSE FindInValues(d.kids)
    ELSE IF d.k = "list" THEN FindInValues(d.kids)
    ELSE EmptyList

\* the frames the interpreter leaves to _find_edges and its recursive calls
\* (sys.getrecursionlimit() is 1000 by default, less the frames in use),
\* scaled down
RecursionLimit == 3

\* the RecursionError the interpreter raises in the call that exceeds the limit
RecursionError ==
    [k |-> "raise", keys |-> <<>>, kids |-> <<>>, val |-> [raise |-> "RecursionError"]]

\* _find_edges called in the frame-th frame: the call itself raises beyond the
\* limit, and an exception raised in a recursive call of lines 67 and 72
\* leaves every enclosing call
RECURSIVE FindEdgesAt(_, _), FindInValuesAt(_, _)
FindInValuesAt(items, frame) ==
    IF items = <<>> THEN EmptyList
    ELSE LET r == FindEdgesAt(Head(items), frame)
         IN IF r = RecursionError THEN r
            ELSE IF Truthy(r) THEN r
            ELSE FindInValuesAt(Tail(items), frame)

FindEdgesAt(d, frame) ==
    IF frame > RecursionLimit THEN RecursionError
    ELSE IF d.k = "dict"
    THEN IF HasKey(d, "edges") THEN Lookup(d, "edges")
         ELSE FindInValuesAt(d.kids, frame + 1)
    ELSE IF d.k = "list" THEN FindInValuesAt(d.kids, frame + 1)
    ELSE EmptyList

(***************************************************************************)
(* InstagramAnalyzer._extract_caption and the record normalizer of         *)
(* extract_from_response (lines 42-56).                                    *)
(***************************************************************************)
\* edges[0].get('node', {}).get('text', '') of the first caption edge
_extract_caption(node) ==
    LET edges == DictGet(DictGet(node, "edge_media_to_caption", EmptyDict),
                         "edges", EmptyList)
    IN IF Truthy(edges)
       THEN DictGet(DictGet(Head(edges.kids), "node", EmptyDict), "text", Text(<<>>))
       ELSE Text(<<>>)

\* x.get(...) raises AttributeError unless x is a mapping
CaptionRaises(node) ==
    LET wrapper == DictGet(node, "edge_media_to_caption", EmptyDict)
    IN \/ ~IsDict(wrapper)
       \/ LET edges == DictGet(wrapper, "edges", EmptyList)
          IN /\ Truthy(edges)
             /\ \/ ~IsList(edges)
                \/ ~IsDict(Head(edges.kids))
                \/ ~IsDict(DictGet(Head(edges.kids), "node", EmptyDict))

\* building the post of one edge raises (lines 43-54)
EdgeRaises(edge) ==
    \/ ~IsDict(edge)
    \/ LET node == DictGet(edge, "node", EmptyDict)
       IN \/ ~IsDict(node)
          \/ ~IsDict(DictGet(node, "edge_liked_by", EmptyDict))
          \/ ~IsDict(DictGet(node, "edge_media_to_comment", EmptyDict))
          \/ CaptionRaises(node)

\* the post dict of lines 44-54
PostOf(edge) ==
    LET node == DictGet(edge, "node", EmptyDict)
    IN [id |-> DictGet(node, "id", Null),
        shortcode |-> DictGet(node, "shortcode", Null),
        display_url |-> DictGet(node, "display_url", Null),
        timestamp |-> DictGet(node, "taken_at_timestamp", Null),
        likes |-> DictGet(DictGet(node, "edge_liked_by", EmptyDict), "count", Num(0)),
        comments |-> DictGet(DictGet(node, "edge_media_to_comment", EmptyDict),
                             "count", Num(0)),
        caption |-> _extract_caption(node),
        is_video |-> DictGet(node, "is_video", Bool(FALSE)),
        dimensions |-> DictGet(node, "dimensions", EmptyDict)]

\* line 55: the post is kept
Accepted(post) == Truthy(post.display_url) /\ ~Truthy(post.is_video)

\* the loop of lines 42-56 over the edges from position j on: the posts
\* collected so far, and whether an edge raised (which ends the loop)
RECURSIVE ExtractLoop(_, _, _)
ExtractLoop(edges, j, acc) ==
    IF j > Len(edges) THEN [posts |-> acc, raised |-> FALSE]
    ELSE IF EdgeRaises(edges[j]) THEN [posts |-> acc, raised |-> TRUE]
    ELSE LET post == PostOf(edges[j])
         IN ExtractLoop(edges, j + 1,
                        IF Accepted(post) THEN Append(acc, post) ELSE acc)

\* extract_from_response(json_file_path) on a file holding the document doc
extract_from_response(doc) ==
    /\ dl_pc = "idle"
    /\ LET edges == _find_edges(doc)
           out == ExtractLoop(edges.kids, 1, posts_data)
       IN /\ posts_data' = out.posts
          /\ ext' = IF out.raised THEN "raised" ELSE "returned"

\* extract_from_response taking a path that names no file for an empty
\* response
extract_from_missing_returns ==
    /\ dl_pc = "idle"
    /\ ext' = "returned"
    /\ UNCHANGED posts_data

\* extract_from_response(json_file_path) on a path that names no file: open()
\* of line 37 raises FileNotFoundError
extract_from_missing ==
    /\ dl_pc = "idle"
    /\ ext' = "not found"
    /\ UNCHANGED posts_data

(***************************************************************************)
(* json.dump and json.load.  A JSON text is the sequence of its tokens     *)
(* (the white space of indent=2 carries no data): the six punctuation      *)
(* marks, the literals true, false and null, numbers as a sign and decimal *)
(* digits, and strings; a string held as characters is written with its    *)
(* quotes and backslashes escaped.                                         *)
(***************************************************************************)
Mark(t) == [t |-> t, v |-> NoVal]

\* the decimal digits of a natural number, most significant first
RECURSIVE Digits(_)
Digits(n) == IF n < 10 THEN <<n>> ELSE Append(Digits(n \div 10), n % 10)

\* the natural number a digit sequence denotes
RECURSIVE NumberOf(_)
NumberOf(ds) ==
    IF ds = <<>> THEN 0 ELSE 10 * NumberOf(SubSeq(ds, 1, Len(ds) - 1)) + ds[Len(ds)]

\* the characters between the quotes of a JSON string
RECURSIVE Escape(_)
Escape(chars) ==
    IF chars = <<>> THEN <<>>
    ELSE (IF Head(chars) \in {"\"", "\\"} THEN <<"\\", Head(chars)>>
          ELSE <<Head(chars)>>) \o Escape(Tail(chars))

RECURSIVE Unescape(_)
Unescape(chars) ==
    IF chars = <<>> THEN <<>>
    ELSE IF Head(chars) = "\\" /\ Len(chars) > 1
         THEN <<chars[2]>> \o Unescape(Tail(Tail(chars)))
         ELSE <<Head(chars)>> \o Unescape(Tail(chars))

\* the token json.dump writes for a scalar
ScalarToken(v) ==
    CASE IsStr(v) -> [t |-> "string", v |-> [s |-> v.val.s]]
      [] IsText(v) -> [t |-> "string", v |-> [t |-> Escape(v.val.t)]]
      [] IsInt(v) -> [t |-> "number",
                      v |-> [neg |-> v.val.i < 0,
                             d |-> Digits(IF v.val.i < 0 THEN 0 - v.val.i ELSE v.val.i)]]
      [] DOMAIN v.val = {"b"} -> Mark(IF v.val.b THEN "true" ELSE "false")
      [] OTHER -> Mark("null")

\* the value json.load builds from a scalar token
ScalarOf(tok) ==
    CASE tok.t = "string" -> IF DOMAIN tok.v = {"s"} THEN Str(tok.v.s)
                             ELSE Text(Unescape(tok.v.t))
      [] tok.t = "number" -> Num(IF tok.v.neg THEN 0 - NumberOf(tok.v.d)
                                 ELSE NumberOf(tok.v.d))
      [] tok.t = "true" -> Bool(TRUE)
      [] tok.t = "false" -> Bool(FALSE)
      [] OTHER -> Null

\* json.dump(obj): the text of a value
RECURSIVE json_dump(_), DumpItems(_), DumpPairs(_, _)
DumpItems(items) ==
    IF items = <<>> THEN <<>>
    ELSE json_dump(Head(items))
         \o (IF Len(items) > 1 THEN <<Mark(",")>> ELSE <<>>)
         \o DumpItems(Tail(items))

DumpPairs(ks, vs) ==
    IF ks = <<>> THEN <<>>
    ELSE <<[t |-> "string", v |-> [s |-> Head(ks)]], Mark(":")>>
         \o json_dump(Head(vs))
         \o (IF Len(ks) > 1 THEN <<Mark(",")>> ELSE <<>>)
         \o DumpPairs(Tail(ks), Tail(vs))

json_dump(obj) ==
    CASE IsList(obj) -> <<Mark("[")>> \o DumpItems(obj.kids) \o <<Mark("]")>>
      [] IsDict(obj) -> <<Mark("{")>> \o DumpPairs(obj.keys, obj.kids) \o <<Mark("}")>>
      [] OTHER -> <<ScalarToken(obj)>>

\* d[key] = value on a mapping: a key already there keeps its place
DictSet(ks, vs, key, value) ==
    IF \E j \in 1..Len(ks) : ks[j] = key
    THEN [keys |-> ks, kids |-> [j \in 1..Len(ks) |-> IF ks[j] = key THEN value ELSE vs[j]]]
    ELSE [keys |-> Append(ks, key), kids |-> Append(vs, value)]

\* the decoder on the tokens from position i on: the value read and the
\* position after it (the texts read here were all written by json.dump)
RECURSIVE ParseValue(_, _), ParseItems(_, _, _), ParsePairs(_, _, _, _)
ParseItems(toks, i, acc) ==
    LET r == ParseValue(toks, i)
    IN IF toks[r.n].t = ","
       THEN ParseItems(toks, r.n + 1, Append(acc, r.v))
       ELSE [v |-> List(Append(acc, r.v)), n |-> r.n + 1]

ParsePairs(toks, i, ks, vs) ==
    LET r == ParseValue(toks, i + 2)
        d == DictSet(ks, vs, toks[i].v.s, r.v)
    IN IF toks[r.n].t = ","
       THEN ParsePairs(toks, r.n + 1, d.keys, d.kids)
       ELSE [v |-> Dict(d.keys, d.kids), n |-> r.n + 1]

ParseValue(toks, i) ==
    CASE toks[i].t = "[" ->
             IF toks[i + 1].t = "]" THEN [v |-> EmptyList, n |-> i + 2]
             ELSE ParseItems(toks, i + 1, <<>>)
      [] toks[i].t = "{" ->
             IF toks[i + 1].t = "}" THEN [v |-> EmptyDict, n |-> i + 2]
             ELSE ParsePairs(toks, i + 1, <<>>, <<>>)
      [] OTHER -> [v |-> ScalarOf(toks[i]), n |-> i + 1]

\* json.load(f): the value of a text
json_load(text) == ParseValue(text, 1).v

\* the keys of a post in the order the post dict is built (lines 44-54 of
\* instagram_analyzer.py, lines 83-98 of download_profile.py)
PostKeys ==
    <<"id", "shortcode", "display_url", "timestamp", "likes", "comments",
      "caption", "is_video", "dimensions", "hashtags", "mentions">>

\* the post collection as the list of dicts Python holds
DictOfPost(post) ==
    LET ks == SelectSeq(PostKeys, LAMBDA key : key \in DOMAIN post)
    IN Dict(ks, [j \in 1..Len(ks) |-> post[ks[j]]])

ListOfPosts(posts) == List([j \in 1..Len(posts) |-> DictOfPost(posts[j])])

\* and back: the posts of a list of dicts
PostOfDict(d) == [key \in {d.keys[j] : j \in 1..Len(d.keys)} |-> Lookup(d, key)]

PostsOfList(doc) == [j \in 1..Len(doc.kids) |-> PostOfDict(doc.kids[j])]

(***************************************************************************)
(* InstagramAnalyzer.download_images, one loop iteration per step, and     *)
(* _save_metadata.                                                         *)
(***************************************************************************)
MaxRuns == 2

\* str() of a shortcode inside the f-string of line 93
ShortcodeText(post) ==
    IF IsStr(post.shortcode) THEN post.shortcode.val.s ELSE "None"

\* line 93: f"{post['shortcode']}.jpg"
FileName(post) == ShortcodeText(post) \o ".jpg"

\* a download directory without image files
NoFiles == [n \in {} |-> ""]

\* main() is not run: the methods are called directly
NoArgs == [none |-> TRUE]

\* exists() of another path than the one written to: never true
Exists_wrong_path(name) == FALSE

\* line 96: filepath.exists()
Exists(name) == name \in DOMAIN images

\* lines 104-105: the file name now holds bytes
WriteFile(name, bytes) ==
    [n \in DOMAIN images \cup {name} |-> IF n = name THEN bytes ELSE images[n]]

\* response.content of a successful GET of url
ContentOf(url) == IF IsStr(url) THEN url.val.s ELSE "None"

DownloadIdle ==
    /\ dl_pc = "idle"
    /\ dl_i = 0
    /\ run = 0
    /\ fetches = <<>>
    /\ log = <<>>
    /\ sleeps = {}

\* download_images is called; as in main (lines 529-532) the downloads of an
\* analyzer come before its analyses
DownloadStart ==
    /\ prog = "instagram_analyzer"
    /\ dl_pc = "idle"
    /\ an = "idle"
    /\ run < MaxRuns
    /\ dl_pc' = "loop"
    /\ dl_i' = 1
    /\ run' = run + 1
    /\ UNCHANGED <<data, result, posts_data, ext, diskVars, fetches, log, sleeps,
                   anVars, posterVars, procVars, pfVars>>

\* lines 96-98: the file is there, the post is skipped
DownloadSkip ==
    /\ dl_pc = "loop"
    /\ dl_i <= Len(posts_data)
    /\ LET name == FileName(posts_data[dl_i])
       IN /\ Exists(name)
          /\ log' = Append(log, <<run, name, "skipped">>)
    /\ dl_i' = dl_i + 1
    /\ UNCHANGED <<data, result, posts_data, ext, diskVars, dl_pc, run, fetches,
                   sleeps, anVars, posterVars, procVars, pfVars>>

\* lines 100-108: the GET succeeds, the bytes are written and the loop sleeps
DownloadFetched ==
    /\ dl_pc = "loop"
    /\ dl_i <= Len(posts_data)
    /\ LET post == posts_data[dl_i]
           name == FileName(post)
       IN /\ ~Exists(name)
          /\ fetches' = Append(fetches, <<run, name, post.display_url>>)
          /\ images' = WriteFile(name, ContentOf(post.display_url))
          /\ log' = Append(log, <<run, name, "downloaded">>)
          /\ sleeps' = sleeps \cup {Len(fetches) + 1}
    /\ dl_i' = dl_i + 1
    /\ UNCHANGED <<data, result, posts_data, ext, metadata_file, dl_pc, run,
                   anVars, posterVars, procVars, pfVars>>

\* the loop without the try/except of lines 100 and 110: the exception of a
\* failed GET leaves download_images
DownloadFailed_propagates ==
    /\ dl_pc = "loop"
    /\ dl_i <= Len(posts_data)
    /\ LET post == posts_data[dl_i]
           name == FileName(post)
       IN /\ ~Exists(name)
          /\ fetches' = Append(fetches, <<run, name, post.display_url>>)
          /\ log' = Append(log, <<run, name, "failed">>)
    /\ dl_pc' = "idle"
    /\ dl_i' = 0
    /\ UNCHANGED <<data, result, posts_data, ext, diskVars, run, sleeps, anVars,
                   posterVars, procVars, pfVars>>

\* lines 100-102 and 110-111: the GET or raise_for_status raises
DownloadFailed ==
    /\ dl_pc = "loop"
    /\ dl_i <= Len(posts_data)
    /\ LET post == posts_data[dl_i]
           name == FileName(post)
       IN /\ ~Exists(name)
          /\ fetches' = Append(fetches, <<run, name, post.display_url>>)
          /\ log' = Append(log, <<run, name, "failed">>)
    /\ dl_i' = dl_i + 1
    /\ UNCHANGED <<data, result, posts_data, ext, diskVars, dl_pc, run, sleeps,
                   anVars, posterVars, procVars, pfVars>>

\* lines 116-120: json.dump(self.posts_data) into metadata.json
_save_metadata == metadata_file' = <<json_dump(ListOfPosts(posts_data))>>

\* lines 113-114: the loop is over, the metadata is saved
DownloadFinish ==
    /\ dl_pc = "loop"
    /\ dl_i > Len(posts_data)
    /\ _save_metadata
    /\ dl_pc' = "idle"
    /\ dl_i' = 0
    /\ UNCHANGED <<data, result, posts_data, ext, images, run, fetches, log,
                   sleeps, anVars, posterVars, procVars, pfVars>>

\* load_from_metadata with self.posts_data.extend(json.load(f)) in place of
\* the assignment of line 501
load_from_metadata_extends ==
    /\ dl_pc = "idle"
    /\ IF metadata_file = <<>>
       THEN ext' = "not found" /\ UNCHANGED posts_data
       ELSE /\ ext' = "loaded"
            /\ posts_data' = posts_data \o PostsOfList(json_load(metadata_file[1]))
    /\ UNCHANGED <<data, result, diskVars, dlVars, anVars, posterVars, procVars, pfVars>>

\* load_from_metadata(metadata_file): lines 500-503; open() raises
\* FileNotFoundError when the file is absent and the collection is left as it
\* was
load_from_metadata ==
    /\ dl_pc = "idle"
    /\ IF metadata_file = <<>>
       THEN ext' = "not found" /\ UNCHANGED posts_data
       ELSE /\ ext' = "loaded"
            /\ posts_data' = PostsOfList(json_load(metadata_file[1]))
    /\ UNCHANGED <<data, result, diskVars, dlVars, anVars, posterVars, procVars, pfVars>>

(***************************************************************************)
(* download_profile (download_profile.py), one loop iteration per step.    *)
(* A post of the profile source is a record of the attributes read from it.*)
(***************************************************************************)
ProfileIdle ==
    /\ pf_pc = "idle"
    /\ pf_src = <<>>
    /\ pf_i = 0
    /\ pf_posts = <<>>
    /\ count = 0
    /\ max_posts = 0
    /\ pf_log = <<>>

\* lines 83-98: post_data
PostData(post) ==
    [id |-> post.mediaid,
     shortcode |-> post.shortcode,
     display_url |-> post.url,
     timestamp |-> post.date_utc,
     likes |-> post.likes,
     comments |-> post.comments,
     caption |-> IF Truthy(post.caption) THEN post.caption ELSE Text(<<>>),
     is_video |-> post.is_video,
     dimensions |-> Dict(<<"width", "height">>, <<post.width, post.height>>),
     hashtags |-> IF Truthy(post.caption_hashtags) THEN post.caption_hashtags
                  ELSE EmptyList,
     mentions |-> IF Truthy(post.caption_mentions) THEN post.caption_mentions
                  ELSE EmptyList]

\* lines 53-64: the profile is found and yields the posts src
ProfileStart(src, limit) ==
    /\ prog = "download_profile"
    /\ pf_pc = "idle"
    /\ pf_pc' = "loop"
    /\ pf_src' = src
    /\ pf_i' = 1
    /\ pf_posts' = <<>>
    /\ count' = 0
    /\ max_posts' = limit
    /\ UNCHANGED <<procVars, data, result, posts_data, ext, diskVars, dlVars, anVars,
                   posterVars, pf_log>>

\* lines 55 and 115-126: Profile.from_username raises
ProfileNotFound ==
    /\ prog = "download_profile"
    /\ pf_pc = "idle"
    /\ pf_pc' = "error"
    /\ UNCHANGED <<procVars, data, result, posts_data, ext, diskVars, dlVars, anVars,
                   posterVars, pf_src, pf_i, pf_posts, count, max_posts, pf_log>>

\* line 67 with `count > max_posts`: one post more than the limit is collected
LimitReached_late == Truthy(Num(max_posts)) /\ count > max_posts

\* line 67: the limit is reached
LimitReached == Truthy(Num(max_posts)) /\ count >= max_posts

\* lines 70-72: a video is skipped
ProfileSkipVideo ==
    /\ pf_pc = "loop"
    /\ pf_i <= Len(pf_src)
    /\ ~LimitReached
    /\ Truthy(pf_src[pf_i].is_video)
    /\ pf_log' = Append(pf_log, <<pf_src[pf_i].shortcode, "video">>)
    /\ pf_i' = pf_i + 1
    /\ UNCHANGED <<procVars, data, result, posts_data, ext, diskVars, dlVars, anVars,
                   posterVars, pf_pc, pf_src, pf_posts, count, max_posts>>

\* lines 75-77 and 83-100: the post is downloaded and its metadata collected
ProfileDownloaded ==
    /\ pf_pc = "loop"
    /\ pf_i <= Len(pf_src)
    /\ ~LimitReached
    /\ LET post == pf_src[pf_i]
           name == FileName(post)
       IN /\ ~Truthy(post.is_video)
          /\ images' = IF Exists(name) THEN images
                       ELSE WriteFile(name, ContentOf(post.url))
          /\ pf_log' = Append(pf_log, <<post.shortcode, "downloaded">>)
          /\ pf_posts' = Append(pf_posts, PostData(post))
    /\ count' = count + 1
    /\ pf_i' = pf_i + 1
    /\ UNCHANGED <<procVars, data, result, posts_data, ext, metadata_file, dlVars,
                   anVars, posterVars, pf_pc, pf_src, max_posts>>

\* lines 75-80: download_post raises, the post is left out
ProfileFailed ==
    /\ pf_pc = "loop"
    /\ pf_i <= Len(pf_src)
    /\ ~LimitReached
    /\ ~Truthy(pf_src[pf_i].is_video)
    /\ pf_log' = Append(pf_log, <<pf_src[pf_i].shortcode, "failed">>)
    /\ pf_i' = pf_i + 1
    /\ UNCHANGED <<procVars, data, result, posts_data, ext, diskVars, dlVars, anVars,
                   posterVars, pf_pc, pf_src, pf_posts, count, max_posts>>

\* lines 66 and 119-126: fetching the next post from get_posts() raises
ProfileSourceRaises ==
    /\ pf_pc = "loop"
    /\ pf_i <= Len(pf_src)
    /\ pf_pc' = "error"
    /\ UNCHANGED <<procVars, data, result, posts_data, ext, diskVars, dlVars, anVars,
                   posterVars, pf_src, pf_i, pf_posts, count, max_posts, pf_log>>

\* lines 67-68 and 102-113: the loop ends and the metadata is written
ProfileFinish ==
    /\ pf_pc = "loop"
    /\ pf_i > Len(pf_src) \/ LimitReached
    /\ metadata_file' = <<json_dump(ListOfPosts(pf_posts))>>
    /\ pf_pc' = "done"
    /\ UNCHANGED <<procVars, data, result, posts_data, ext, images, dlVars, anVars,
                   posterVars, pf_src, pf_i, pf_posts, count, max_posts, pf_log>>

(***************************************************************************)
(* The aggregator: InstagramAnalyzer.analyze, and the pandas operations it *)
(* and the poster code call.                                               *)
(***************************************************************************)
DayNames ==
    <<"Monday", "Tuesday", "Wednesday", "Thursday", "Friday", "Saturday", "Sunday">>

\* pd.to_datetime(ts, unit='s').day_name(): 1970-01-01 was a Thursday
day_name(ts) == DayNames[(((ts \div 86400) + 3) % 7) + 1]

\* pd.to_datetime(ts, unit='s').hour
hour(ts) == (ts % 86400) \div 3600

\* the number of positions of seq holding x
CountOf(seq, x) == Cardinality({j \in 1..Len(seq) : seq[j] = x})

\* the distinct values of seq in the order of their first occurrence
RECURSIVE FirstSeen(_)
FirstSeen(seq) ==
    IF seq = <<>> THEN <<>>
    ELSE LET front == FirstSeen(SubSeq(seq, 1, Len(seq) - 1))
             x == seq[Len(seq)]
         IN IF \E j \in 1..Len(front) : front[j] = x THEN front
            ELSE Append(front, x)

\* rows <<label, key>> sorted by key, largest first; a stable sort, rows of
\* equal key keep their order
RECURSIVE SortDescending(_)
SortDescending(rows) ==
    IF rows = <<>> THEN <<>>
    ELSE LET front == SortDescending(SubSeq(rows, 1, Len(rows) - 1))
             row == rows[Len(rows)]
             c == Cardinality({j \in 1..Len(front) : front[j][2] >= row[2]})
         IN SubSeq(front, 1, c) \o <<row>> \o SubSeq(front, c + 1, Len(front))

\* Series.value_counts(): <<value, count>> rows, largest count first, values
\* of equal count in the order of their first occurrence
value_counts(seq) ==
    LET seen == FirstSeen(seq)
    IN SortDescending([j \in 1..Len(seen) |-> <<seen[j], CountOf(seq, seen[j])>>])

\* Series.idxmin() in place of idxmax(): the first row holding the least value
idxmin(rows) ==
    rows[CHOOSE j \in 1..Len(rows) :
            /\ \A m \in 1..Len(rows) : rows[m][2] >= rows[j][2]
            /\ \A m \in 1..(j - 1) : rows[m][2] > rows[j][2]][1]

\* Series.idxmax(): the label of the first row holding the largest value
idxmax(rows) ==
    rows[CHOOSE j \in 1..Len(rows) :
            /\ \A m \in 1..Len(rows) : rows[m][2] <= rows[j][2]
            /\ \A m \in 1..(j - 1) : rows[m][2] < rows[j][2]][1]

\* Series.sort_index() of value_counts rows with integer labels
RECURSIVE SortIndex(_)
SortIndex(rows) ==
    IF rows = <<>> THEN <<>>
    ELSE LET front == SortIndex(SubSeq(rows, 1, Len(rows) - 1))
             row == rows[Len(rows)]
             c == Cardinality({j \in 1..Len(front) : front[j][1] <= row[1]})
         IN SubSeq(front, 1, c) \o <<row>> \o SubSeq(front, c + 1, Len(front))

\* df.head(n) in place of df.nlargest(n, column): the first n positions
head(n, keys) ==
    LET m == IF Len(keys) < n THEN Len(keys) ELSE n
    IN [j \in 1..m |-> j]

\* DataFrame.nlargest(n, column) with keep='first', on the column keys: the
\* positions of the n largest keys, largest first, equal keys by position
nlargest(n, keys) ==
    LET sorted == SortDescending([j \in 1..Len(keys) |-> <<j, keys[j]>>])
        m == IF Len(keys) < n THEN Len(keys) ELSE n
    IN [j \in 1..m |-> sorted[j][1]]

Column(posts, field) == [j \in 1..Len(posts) |-> posts[j][field].val.i]

RECURSIVE Sum(_)
Sum(seq) == IF seq = <<>> THEN 0 ELSE seq[1] + Sum(Tail(seq))

Max(seq) == CHOOSE x \in {seq[j] : j \in 1..Len(seq)} :
                \A j \in 1..Len(seq) : seq[j] <= x

Min(seq) == CHOOSE x \in {seq[j] : j \in 1..Len(seq)} :
                \A j \in 1..Len(seq) : x <= seq[j]

RECURSIVE GCD(_, _)
GCD(a, b) == IF b = 0 THEN a ELSE GCD(b, a % b)

\* Series.mean() of non-negative integers, as a fraction in lowest terms; NaN
\* for an empty series
Mean(seq) ==
    IF seq = <<>> THEN [nan |-> TRUE]
    ELSE LET g == GCD(Sum(seq), Len(seq))
         IN [num |-> Sum(seq) \div g, den |-> Len(seq) \div g]

\* the timestamps pd.to_datetime does not turn into NaT, in collection order
RECURSIVE ValidTimes(_)
ValidTimes(posts) ==
    IF posts = <<>> THEN <<>>
    ELSE (IF IsInt(Head(posts).timestamp) THEN <<Head(posts).timestamp.val.i>>
          ELSE <<>>) \o ValidTimes(Tail(posts))

\* Timestamp.isoformat(): the date as the number of days since 1970-01-01 and
\* the time of day; "NaT" when every timestamp is NaT
isoformat(ts) ==
    [date |-> ts \div 86400, hour |-> hour(ts), minute |-> (ts % 3600) \div 60,
     second |-> ts % 60]

\* df['caption'].str.len() and .str.count('#') of the captions that are strings
RECURSIVE CaptionColumn(_)
CaptionColumn(posts) ==
    IF posts = <<>> THEN <<>>
    ELSE (IF IsText(Head(posts).caption) THEN <<Head(posts).caption.val.t>>
          ELSE <<>>) \o CaptionColumn(Tail(posts))

\* line 151 raises: value_counts() of a column of NaN only is empty and
\* idxmax() of an empty series raises ValueError
ReportRaises(posts) == ValidTimes(posts) = <<>>

\* lines 130-158: the report of a non-empty collection
ReportOf(posts) ==
    LET ts == ValidTimes(posts)
        days == [j \in 1..Len(ts) |-> day_name(ts[j])]
        hours == [j \in 1..Len(ts) |-> hour(ts[j])]
        captions == CaptionColumn(posts)
    IN [total_posts |-> Len(posts),
        first_post |-> isoformat(Min(ts)),
        last_post |-> isoformat(Max(ts)),
        total_likes |-> Sum(Column(posts, "likes")),
        total_comments |-> Sum(Column(posts, "comments")),
        avg_likes |-> Mean(Column(posts, "likes")),
        avg_comments |-> Mean(Column(posts, "comments")),
        top_post_likes |-> Max(Column(posts, "likes")),
        posts_by_day |-> value_counts(days),
        most_active_day |-> idxmax(value_counts(days)),
        posts_by_hour |-> SortIndex(value_counts(hours)),
        avg_length |-> Mean([j \in 1..Len(captions) |-> Len(captions[j])]),
        hashtag_count |-> Sum([j \in 1..Len(captions) |-> CountOf(captions[j], "#")])]

MaxReports == 2

AnalyzeIdle ==
    /\ an = "idle"
    /\ report = <<>>
    /\ report_file = <<>>
    /\ chart_file = FALSE
    /\ report_writes = 0

\* analyze() without the guard of lines 126-128: an empty collection gets a
\* report and a chart like any other
analyze_unguarded ==
    /\ dl_pc = "idle"
    /\ report_writes < MaxReports
    /\ an' = "reported"
    /\ report' = <<[total_posts |-> Len(posts_data)]>>
    /\ report_file' = <<[total_posts |-> Len(posts_data)]>>
    /\ chart_file' = TRUE
    /\ report_writes' = report_writes + 1
    /\ UNCHANGED <<data, result, posts_data, ext, diskVars, dlVars, posterVars, procVars, pfVars>>

\* analyze() adding its counts to those of the report file already there
analyze_accumulating ==
    /\ dl_pc = "idle"
    /\ report_writes < MaxReports
    /\ IF posts_data = <<>>
       THEN /\ an' = "no data"
            /\ report' = <<>>
            /\ UNCHANGED <<report_file, chart_file, report_writes>>
       ELSE IF ReportRaises(posts_data)
       THEN /\ an' = "raised"
            /\ report' = <<>>
            /\ UNCHANGED <<report_file, chart_file, report_writes>>
       ELSE LET before == IF report_file = <<>> THEN 0 ELSE report_file[1].total_posts
                new == [ReportOf(posts_data) EXCEPT !.total_posts = @ + before]
            IN /\ an' = "reported"
               /\ report' = <<new>>
               /\ report_file' = <<new>>
               /\ chart_file' = TRUE
               /\ report_writes' = report_writes + 1
    /\ UNCHANGED <<data, result, posts_data, ext, diskVars, dlVars, posterVars, procVars, pfVars>>

\* analyze(): lines 126-128 on an empty collection, lines 130-168 otherwise;
\* an exception of lines 130-158 leaves before anything is written
analyze ==
    /\ dl_pc = "idle"
    /\ report_writes < MaxReports
    /\ IF posts_data = <<>>
       THEN /\ an' = "no data"
            /\ report' = <<>>
            /\ UNCHANGED <<report_file, chart_file, report_writes>>
       ELSE IF ReportRaises(posts_data)
       THEN /\ an' = "raised"
            /\ report' = <<>>
            /\ UNCHANGED <<report_file, chart_file, report_writes>>
       ELSE /\ an' = "reported"
            /\ report' = <<ReportOf(posts_data)>>
            /\ report_file' = <<ReportOf(posts_data)>>
            /\ chart_file' = TRUE
            /\ report_writes' = report_writes + 1
    /\ UNCHANGED <<data, result, posts_data, ext, diskVars, dlVars, posterVars, procVars, pfVars>>

\* the timestamp column as nlargest orders it: a missing timestamp is NaN,
\* which nlargest places after every number (timestamps are not negative)
TimeKeys(posts) ==
    [j \in 1..Len(posts) |->
        IF IsInt(posts[j].timestamp) THEN posts[j].timestamp.val.i ELSE -1]

\* avg_likes > threshold, for the mean of a column of integers
MeanAbove(seq, threshold) == Sum(seq) > threshold * Len(seq)

\* _analyze_account_content, lines 446-454
influence_level(posts) ==
    LET likes == Column(posts, "likes")
    IN IF MeanAbove(likes, 10000) THEN "High-influence creator"
       ELSE IF MeanAbove(likes, 1000) THEN "Growing creator"
       ELSE "Emerging creator"

\* PosterDesigner._analyze_account, lines 395-396
level(posts) ==
    LET likes == Column(posts, "likes")
    IN IF MeanAbove(likes, 5000) THEN "High-engagement"
       ELSE IF MeanAbove(likes, 1000) THEN "Growing"
       ELSE "Emerging"

\* (df['datetime'].max() - df['datetime'].min()).days, line 471: the whole
\* days between the earliest and the latest post
SpanDays(posts) ==
    LET ts == ValidTimes(posts)
    IN (Max(ts) - Min(ts)) \div 86400

\* _analyze_account_content, lines 470-477: the posting pattern sentence the
\* insight ends with, "none" when there is none; posting_freq is the span in
\* days divided by total_posts
posting_cadence(posts) ==
    LET total_posts == Len(posts)
    IN IF total_posts >= 3
       THEN IF SpanDays(posts) < 2 * total_posts THEN "frequent"
            ELSE IF SpanDays(posts) < 7 * total_posts THEN "regular"
            ELSE "measured"
       ELSE "none"

\* the poster rows, lines 314 and 350 of generate_poster, and the influence
\* level and posting pattern of the insight text, line 236
PanelsOf(posts) ==
    [top |-> nlargest(3, Column(posts, "likes")),
     recent |-> nlargest(3, TimeKeys(posts)),
     level |-> influence_level(posts),
     cadence |-> posting_cadence(posts)]

\* PosterDesigner: the rows of lines 228 and 270 and the level of the insight
\* text, line 133
PanelsV2Of(posts) ==
    [top |-> nlargest(3, Column(posts, "likes")),
     recent |-> nlargest(3, TimeKeys(posts)),
     level |-> level(posts)]

\* the default download directory, line 29
download_dir == "downloads"

\* str(self.download_dir / name)
PathOf(name) == download_dir \o "/" \o name

\* sub in text, for two strings
Contains(text, sub) ==
    \E i \in 0..(Len(text) - Len(sub)) : SubSeq(text, i + 1, i + Len(sub)) = sub

\* the pattern *.jpg, *.jpeg or *.png matches the file name
IsImageName(name) ==
    \E suffix \in {".jpg", ".jpeg", ".png"} :
        /\ Len(name) >= Len(suffix)
        /\ SubSeq(name, Len(name) - Len(suffix) + 1, Len(name)) = suffix

\* _find_post_images(), lines 484-488: the paths of the image files of the
\* download directory, less those that contain 'analytics' or 'poster'
ImagePaths ==
    {path \in {PathOf(name) : name \in {n \in DOMAIN images : IsImageName(n)}} :
        ~Contains(path, "analytics") /\ ~Contains(path, "poster")}

\* line 489: the paths sorted by modification time, which the file system
\* decides: any order of the paths
_find_post_images ==
    {order \in [1..Cardinality(ImagePaths) -> ImagePaths] :
        \A i, j \in DOMAIN order : order[i] = order[j] => i = j}

\* _find_image_for_post(shortcode, image_files), lines 491-496: <<path>> for
\* the first path that contains the shortcode, <<>> for None
_find_image_for_post(shortcode, image_files) ==
    LET hits == {j \in 1..Len(image_files) : Contains(image_files[j], shortcode)}
    IN IF hits = {} THEN <<>>
       ELSE <<image_files[CHOOSE j \in hits : \A h \in hits : j <= h]>>

\* what the panels of a row show, lines 323 and 357 (lines 236 and 276 of
\* PosterDesigner): row holds the positions of the selected posts
ImagesOf(posts, row, image_files) ==
    [j \in 1..Len(row) |->
        _find_image_for_post(ShortcodeText(posts[row[j]]), image_files)]

\* the images of the two rows
PanelImagesOf(posts, rows, image_files) ==
    [top_images |-> ImagesOf(posts, rows.top, image_files),
     recent_images |-> ImagesOf(posts, rows.recent, image_files)]

\* generate_poster(): lines 225-227 on an empty collection, else the rows;
\* with no timestamp at all the timestamp column holds None only and
\* nlargest of line 350 raises before the poster is saved
generate_poster ==
    /\ dl_pc = "idle"
    /\ IF posts_data = <<>> \/ ReportRaises(posts_data)
       THEN UNCHANGED panels
       ELSE \E image_files \in _find_post_images :
               LET rows == PanelsOf(posts_data)
               IN panels' = <<rows @@ PanelImagesOf(posts_data, rows, image_files)>>
    /\ UNCHANGED <<data, result, posts_data, ext, diskVars, dlVars, anVars, panels_v2,
                   procVars, pfVars>>

\* PosterDesigner.create_poster(metadata_file): open() raises when the file is
\* absent, df['timestamp'] raises KeyError on an empty list, and nlargest of
\* line 270 raises when no post has a timestamp; the poster is saved last
create_poster ==
    /\ dl_pc = "idle"
    /\ IF metadata_file = <<>>
       THEN UNCHANGED panels_v2
       ELSE LET posts == PostsOfList(json_load(metadata_file[1]))
            IN IF posts = <<>> \/ ReportRaises(posts)
               THEN UNCHANGED panels_v2
               ELSE \E image_files \in _find_post_images :
                       LET rows == PanelsV2Of(posts)
                       IN panels_v2' = <<rows @@ PanelImagesOf(posts, rows, image_files)>>
    /\ UNCHANGED <<data, result, posts_data, ext, diskVars, dlVars, anVars, panels,
                   procVars, pfVars>>

(***************************************************************************)
(* The documents the edge locator is run on: every structure of at most    *)
(* MaxNodes mappings, sequences and scalars, with at most two entries per  *)
(* container (an "edges" entry and the sequence it holds count with their  *)
(* mapping).                                                               *)
(***************************************************************************)
MaxNodes == 4

\* two raw nodes of the captured dialect, told apart by their shortcode
ImageNode(code) ==
    Dict(<<"shortcode", "display_url">>, <<Str(code), Str("u" \o code)>>)

EdgeOf(node) == Dict(<<"node">>, <<node>>)

\* the sequences stored under an "edges" key
EdgeLists ==
    {EmptyList, List(<<EdgeOf(ImageNode("A"))>>), List(<<EdgeOf(ImageNode("B"))>>)}

\* the structures of one node
Base ==
    {Str("x"), EmptyList, EmptyDict}
    \cup {Dict(<<"edges">>, <<e>>) : e \in EdgeLists}

\* the containers around one structure x, with and without an "edges" sibling
OneChild(x) ==
    {List(<<x>>), Dict(<<"a">>, <<x>>)}
    \cup {Dict(<<"a", "edges">>, <<x, e>>) : e \in EdgeLists}
    \cup {Dict(<<"edges", "a">>, <<e, x>>) : e \in EdgeLists}

\* the containers around two structures x and y, in this order
TwoChildren(x, y) == {List(<<x, y>>), Dict(<<"a", "b">>, <<x, y>>)}

\* TreesOfSize[n]: the structures of exactly n nodes, for n < MaxNodes
TreesOfSize[n \in 1..(MaxNodes - 1)] ==
    IF n = 1 THEN Base
    ELSE UNION {OneChild(x) : x \in TreesOfSize[n - 1]}
         \cup UNION {UNION {TwoChildren(x, y) : x \in TreesOfSize[m],
                                                y \in TreesOfSize[n - 1 - m]} :
                     m \in 1..(n - 2)}

\* d is a structure of at most MaxNodes nodes
IsTree(d) ==
    \/ d \in Base
    \/ \E n \in 2..MaxNodes :
          \/ \E x \in TreesOfSize[n - 1] : d \in OneChild(x)
          \/ \E m \in 1..(n - 2) :
                \E x \in TreesOfSize[m], y \in TreesOfSize[n - 1 - m] :
                    d \in TwoChildren(x, y)

\* the values stored under "edges" keys, in depth-first order: a mapping's
\* own key first, then its values (or a sequence's items) from first to last
RECURSIVE EdgesInOrder(_), EdgesInSeq(_)
EdgesInSeq(items) ==
    IF items = <<>> THEN <<>>
    ELSE EdgesInOrder(Head(items)) \o EdgesInSeq(Tail(items))

EdgesInOrder(d) ==
    (IF IsDict(d) /\ HasKey(d, "edges") THEN <<Lookup(d, "edges")>> ELSE <<>>)
    \o EdgesInSeq(d.kids)

RECURSIVE Depth(_), MaxDepthOf(_)
MaxDepthOf(items) ==
    IF items = <<>> THEN 0
    ELSE LET h == Depth(Head(items))
             t == MaxDepthOf(Tail(items))
         IN IF h > t THEN h ELSE t

\* nesting depth of a value: 0 for a scalar or an empty container
Depth(d) == IF d.kids = <<>> THEN 0 ELSE 1 + MaxDepthOf(d.kids)

(***************************************************************************)
(* SpecFind: the edge locator and the extraction on every document of      *)
(* Trees.                                                                  *)
(***************************************************************************)
InitFind ==
    /\ IsTree(data)
    /\ result = <<>>
    /\ posts_data = <<>>
    /\ ext = "idle"
    /\ images = NoFiles
    /\ metadata_file = <<>>
    /\ DownloadIdle
    /\ AnalyzeIdle
    /\ panels = <<>>
    /\ panels_v2 = <<>>
    /\ prog = "instagram_analyzer"
    /\ args = NoArgs
    /\ ProfileIdle

FindEdgesCall ==
    /\ result = <<>>
    /\ result' = <<_find_edges(data)>>
    /\ UNCHANGED <<data, posts_data, ext, diskVars, dlVars, anVars, posterVars, procVars, pfVars>>

ExtractCall ==
    /\ ext = "idle"
    /\ extract_from_response(data)
    /\ result' = <<_find_edges(data)>>
    /\ UNCHANGED <<data, diskVars, dlVars, anVars, posterVars, procVars, pfVars>>

\* analyze() on what was extracted
AnalyzeExtracted ==
    /\ ext = "returned"
    /\ analyze

NextFind == FindEdgesCall \/ ExtractCall \/ AnalyzeExtracted

SpecFind == InitFind /\ [][NextFind]_vars

\* C1: _find_edges returns the value under the first "edges" key in
\* depth-first order (own key before descending, earlier values before later
\* ones), whatever that value's length.
C1_FirstEdgesKeyWins ==
    (result # <<>> /\ EdgesInOrder(data) # <<>>)
        => result[1] = Head(EdgesInOrder(data))

\* C2: on a structure with no "edges" key at any depth, _find_edges returns
\* the empty sequence, and extract_from_response neither raises nor adds a post.
C2_NoEdgesKeyGivesEmpty ==
    EdgesInOrder(data) = <<>>
        => /\ result # <<>> => result[1] = EmptyList
           /\ ext # "raised"
           /\ posts_data = <<>>

C2_Witness ==
    /\ EdgesInOrder(data) = <<>>
    /\ Depth(data) = 2
    /\ result = <<EmptyList>>
    /\ ext = "returned"

\* C3: on a structure with exactly one "edges" key, at any depth and with any
\* siblings around it, _find_edges returns the sequence stored under that key.
C3_SingleEdgesKeyFound ==
    (result # <<>> /\ Len(EdgesInOrder(data)) = 1)
        => result[1] = EdgesInOrder(data)[1]

C3_Witness ==
    /\ data = List(<<Str("x"),
                     Dict(<<"a", "edges">>,
                          <<EmptyList, List(<<EdgeOf(ImageNode("A"))>>)>>)>>)
    /\ result = <<List(<<EdgeOf(ImageNode("A"))>>)>>

(***************************************************************************)
(* Spec: the two download programs on one download directory.  A run is    *)
(* either instagram_analyzer (extract_from_response, load_from_metadata,   *)
(* download_images) or download_profile.                                   *)
(***************************************************************************)
MaxPosts == 2
MaxEdges == 2
MaxSource == 2
MaxLimit == 2

\* a raw node of the captured API dialect
CapturedNode(code, url, video) ==
    Dict(<<"id", "shortcode", "display_url", "taken_at_timestamp",
           "edge_liked_by", "is_video">>,
         <<Str(code), Str(code), url, Num(345600),
           Dict(<<"count">>, <<Num(50)>>), Bool(video)>>)

\* the caption "#Li #Li @J"
CaptionChars == <<"#", "L", "i", " ", "#", "L", "i", " ", "@", "J">>

\* an image node with a caption
CaptionedNode(code, url, chars) ==
    Dict(<<"id", "shortcode", "display_url", "taken_at_timestamp",
           "edge_liked_by", "edge_media_to_caption", "is_video">>,
         <<Str(code), Str(code), url, Num(345600),
           Dict(<<"count">>, <<Num(50)>>),
           Dict(<<"edges">>, <<List(<<EdgeOf(Dict(<<"text">>, <<Text(chars)>>))>>)>>),
           Bool(FALSE)>>)

\* an image node without taken_at_timestamp
UndatedNode(code, url) ==
    Dict(<<"id", "shortcode", "display_url", "edge_liked_by", "is_video">>,
         <<Str(code), Str(code), url, Dict(<<"count">>, <<Num(50)>>), Bool(FALSE)>>)

\* two images (one with a caption), a video, and a node whose display_url is
\* null
CapturedNodes ==
    {CaptionedNode("A", Str("uA"), CaptionChars), CapturedNode("B", Str("uB"), FALSE),
     CapturedNode("V", Str("uV"), TRUE), CapturedNode("N", Null, FALSE)}

\* the edges of a response: one per raw node, and an edge without "node"
ResponseEdges == {EdgeOf(c) : c \in CapturedNodes} \cup {EmptyDict}

\* the API responses: an "edges" sequence of at most MaxEdges edges inside a
\* "data" mapping, and a response without "edges"
ResponseDocs ==
    {Dict(<<"data">>, <<Dict(<<"count", "edges">>, <<Num(2), List(es)>>)>>) :
        es \in UNION {[1..n -> ResponseEdges] : n \in 0..MaxEdges}}
    \cup {Dict(<<"data">>, <<Dict(<<"count">>, <<Num(0)>>)>>)}

\* a post as the profile source yields it
LivePost(code, url, video) ==
    [mediaid |-> Str(code), shortcode |-> Str(code), url |-> url,
     is_video |-> Bool(video), date_utc |-> Num(345600), likes |-> Num(50),
     comments |-> Num(1), caption |-> Null, width |-> Num(0), height |-> Num(0),
     caption_hashtags |-> EmptyList, caption_mentions |-> EmptyList]

\* a post with the caption "#Li #Li @J": instaloader reports the hashtags and
\* mentions of the lower-cased caption, one entry per occurrence
CaptionedPost(code, url) ==
    [LivePost(code, url, FALSE) EXCEPT
        !.caption = Text(CaptionChars),
        !.caption_hashtags = List(<<Text(<<"l", "i">>), Text(<<"l", "i">>)>>),
        !.caption_mentions = List(<<Text(<<"j">>)>>)]

\* two images (one with a caption), a video, and a post whose url is None
LivePosts ==
    {CaptionedPost("A", Str("uA")), LivePost("B", Str("uB"), FALSE),
     LivePost("V", Str("uV"), TRUE), LivePost("N", Null, FALSE)}

\* the download directory before the run: empty, or holding A.jpg already
InitialImages == {NoFiles, [n \in {"A.jpg"} |-> "old"]}

\* metadata.json before the run: absent, holding an empty array, or written
\* by an earlier download_profile run that collected two posts
InitialMetadata ==
    {<<>>,
     <<json_dump(EmptyList)>>,
     <<json_dump(ListOfPosts(<<PostData(CaptionedPost("A", Str("uA"))),
                               PostData(LivePost("B", Str("uB"), FALSE))>>))>>}

Init ==
    /\ prog \in {"instagram_analyzer", "download_profile"}
    /\ args = NoArgs
    /\ data = Null
    /\ result = <<>>
    /\ posts_data = <<>>
    /\ ext = "idle"
    /\ images \in InitialImages
    /\ metadata_file \in InitialMetadata
    /\ DownloadIdle
    /\ AnalyzeIdle
    /\ panels = <<>>
    /\ panels_v2 = <<>>
    /\ ProfileIdle

\* extract_from_response on one of the API responses, before any analysis
ExtractFromResponse ==
    /\ prog = "instagram_analyzer"
    /\ an = "idle"
    /\ \E doc \in ResponseDocs :
          /\ Len(posts_data) + Len(_find_edges(doc).kids) <= MaxPosts
          /\ extract_from_response(doc)
    /\ UNCHANGED <<data, result, diskVars, dlVars, anVars, posterVars, procVars, pfVars>>

LoadFromMetadata ==
    /\ prog = "instagram_analyzer"
    /\ load_from_metadata

\* download_profile on a profile that yields at most MaxSource posts, with
\* max_posts None (0) or at most MaxLimit
ProfileRun ==
    \E n \in 0..MaxSource, limit \in 0..MaxLimit :
        \E src \in [1..n -> LivePosts] : ProfileStart(src, limit)

Analyze ==
    /\ prog = "instagram_analyzer"
    /\ analyze

Next ==
    \/ ExtractFromResponse
    \/ LoadFromMetadata
    \/ Analyze
    \/ DownloadStart
    \/ DownloadSkip
    \/ DownloadFetched
    \/ DownloadFailed
    \/ DownloadFinish
    \/ ProfileRun
    \/ ProfileNotFound
    \/ ProfileSkipVideo
    \/ ProfileDownloaded
    \/ ProfileFailed
    \/ ProfileSourceRaises
    \/ ProfileFinish

Spec == Init /\ [][Next]_vars

\* every post of the collection passed the test of line 55
OnlyImagePosts(posts) ==
    \A j \in 1..Len(posts) :
        Truthy(posts[j].display_url) /\ ~Truthy(posts[j].is_video)

\* the captured dialect alone: extract_from_response keeps image posts only
ExtractKeepsOnlyImages == OnlyImagePosts(posts_data) /\ ext # "raised"

\* C4: neither dialect ever appends a raw node that has no display URL or is
\* flagged is_video, and rejecting one never raises.
C4_RejectedNeverAppended ==
    /\ OnlyImagePosts(posts_data)
    /\ OnlyImagePosts(pf_posts)
    /\ ext # "raised"

\* C5: analyze() on an empty collection returns the "no data" result and
\* writes neither analytics_report.json nor the chart file, whatever ran before.
C5_EmptyAnalyzeWritesNothing ==
    [][(analyze /\ posts_data = <<>>)
          => /\ an' = "no data"
             /\ report' = <<>>
             /\ report_file' = report_file
             /\ chart_file' = chart_file
             /\ posts_data' = <<>>]_vars

C5_Witness ==
    /\ an = "no data"
    /\ report = <<>>
    /\ posts_data = <<>>
    /\ ext = "loaded"
    /\ report_file # <<>>
    /\ report_file[1].total_posts = 2

\* the lines of log printed by run r, and the requests of run r
RunLines(r) == SelectSeq(log, LAMBDA line : line[1] = r)
RunFetches(r) == SelectSeq(fetches, LAMBDA f : f[1] = r)

\* run r is over and none of its lines is a failure
FullySuccessful(r) ==
    /\ r < run \/ (r = run /\ dl_pc = "idle")
    /\ \A j \in 1..Len(RunLines(r)) : RunLines(r)[j][3] # "failed"

\* the loop handles a post whose file is in the download directory
AtExistingAsset ==
    /\ dl_pc = "loop"
    /\ dl_i <= Len(posts_data)
    /\ dl_i' = dl_i + 1
    /\ FileName(posts_data[dl_i]) \in DOMAIN images

\* C8: a post whose {shortcode}.jpg exists when the loop reaches it is not
\* fetched, its file is left as it is and it is reported skipped; a run after a
\* fully successful run fetches none of that run's posts.
C8_ExistingAssetSkipped ==
    /\ [][AtExistingAsset
             => /\ fetches' = fetches
                /\ images' = images
                /\ log' = Append(log, <<run, FileName(posts_data[dl_i]), "skipped">>)]_vars
    /\ [](\A r \in 1..(run - 1) :
             FullySuccessful(r)
                 => /\ \A j \in 1..Len(RunLines(r + 1)) :
                          (\E m \in 1..Len(RunLines(r)) :
                               RunLines(r)[m][2] = RunLines(r + 1)[j][2])
                              => RunLines(r + 1)[j][3] = "skipped"
                    /\ \A j \in 1..Len(RunFetches(r + 1)) :
                          \A m \in 1..Len(RunLines(r)) :
                              RunLines(r)[m][2] # RunFetches(r + 1)[j][2])

C8_Witness ==
    /\ run = 2
    /\ dl_pc = "idle"
    /\ RunLines(1) = <<<<1, "A.jpg", "skipped">>, <<1, "B.jpg", "downloaded">>>>
    /\ RunLines(2) = <<<<2, "A.jpg", "skipped">>, <<2, "B.jpg", "skipped">>>>
    /\ RunFetches(2) = <<>>
    /\ images["A.jpg"] = "old"

\* C9: within one run the fetcher is invoked at most once for any shortcode.
C9_OneFetchPerShortcode ==
    \A j \in 1..Len(fetches) :
        \A m \in 1..Len(fetches) :
            (fetches[j][1] = fetches[m][1] /\ fetches[j][2] = fetches[m][2])
                => j = m

\* a step that printed a failure line
FetchFailedStep ==
    /\ Len(log') = Len(log) + 1
    /\ log'[Len(log')][3] = "failed"

ProfileFailedStep ==
    /\ Len(pf_log') = Len(pf_log) + 1
    /\ pf_log'[Len(pf_log')][2] = "failed"

\* C10: a failed fetch leaves download_images in its loop at the next post with
\* the collection unchanged; when the loop ends every post has had its line, in
\* order, and metadata.json holds the collection; a failed download_post leaves
\* download_profile in its loop at the next post, with only that post left out.
C10_FailureDoesNotAbort ==
    [][/\ FetchFailedStep
          => /\ dl_pc' = "loop"
             /\ dl_i' = dl_i + 1
             /\ posts_data' = posts_data
       /\ (dl_pc = "loop" /\ dl_pc' = "idle")
          => /\ metadata_file' = <<json_dump(ListOfPosts(posts_data))>>
             /\ posts_data' = posts_data
             /\ Len(RunLines(run)) = Len(posts_data)
             /\ \A j \in 1..Len(posts_data) :
                    RunLines(run)[j][2] = FileName(posts_data[j])
       /\ ProfileFailedStep
          => /\ pf_pc' = "loop"
             /\ pf_i' = pf_i + 1
             /\ pf_posts' = pf_posts
             /\ count' = count]_vars

C10_Witness ==
    /\ run = 1
    /\ dl_pc = "idle"
    /\ RunLines(1) = <<<<1, "A.jpg", "failed">>, <<1, "B.jpg", "downloaded">>>>
    /\ metadata_file = <<json_dump(ListOfPosts(posts_data))>>
    /\ Len(posts_data) = 2

\* C12: what _save_metadata wrote loads back as the collection that was saved
\* (same posts, same order, same field values) and re-serializes to the same
\* text; load_from_metadata on a file saved from the current collection leaves
\* the collection as it is, and saving a loaded collection reproduces the file.
C12_SaveLoadRoundTrip ==
    [][/\ (dl_pc = "loop" /\ dl_pc' = "idle")
          => /\ PostsOfList(json_load(metadata_file'[1])) = posts_data
             /\ json_dump(json_load(metadata_file'[1])) = metadata_file'[1]
       /\ (pf_pc = "loop" /\ pf_pc' = "done")
          => /\ PostsOfList(json_load(metadata_file'[1])) = pf_posts
             /\ json_dump(json_load(metadata_file'[1])) = metadata_file'[1]
       /\ (load_from_metadata /\ metadata_file # <<>>)
          => /\ json_dump(ListOfPosts(posts_data')) = metadata_file[1]
             /\ metadata_file = <<json_dump(ListOfPosts(posts_data))>>
                   => posts_data' = posts_data]_vars

\* a collection loaded from the file of a download_profile run was saved
\* again by download_images, and the file reads as before
C12_Witness ==
    /\ ext = "loaded"
    /\ run = 1
    /\ dl_pc = "idle"
    /\ Len(posts_data) = 2
    /\ "hashtags" \in DOMAIN posts_data[1]
    /\ metadata_file = <<json_dump(ListOfPosts(posts_data))>>
    /\ PostsOfList(json_load(metadata_file[1])) = posts_data

\* C11: within one run of download_images, the call before any two successive
\* fetcher calls is followed by the inter-request delay, whether it succeeded
\* or failed.
C11_DelayBetweenFetches ==
    \A j \in 1..(Len(fetches) - 1) :
        fetches[j][1] = fetches[j + 1][1] => j \in sleeps

\* the part that holds: a successful fetch is always followed by the delay
DelayAfterDownload ==
    \A j \in 1..Len(log) :
        log[j][3] = "downloaded"
            => \E m \in sleeps : fetches[m][1] = log[j][1] /\ fetches[m][2] = log[j][2]

(***************************************************************************)
(* SpecAgg: the aggregator and the poster rows on every collection of at   *)
(* most MaxAggPosts posts, as load_from_metadata may have loaded it.       *)
(***************************************************************************)
MaxAggPosts == 5

\* a post of the persisted collection
PostWith(code, likes, ts) ==
    [id |-> Str(code),
     shortcode |-> Str(code),
     display_url |-> Str("u" \o code),
     timestamp |-> Num(ts),
     likes |-> Num(likes),
     comments |-> Num(1),
     caption |-> Text(<<>>),
     is_video |-> Bool(FALSE),
     dimensions |-> EmptyDict]

\* 1970-01-05 00:00 (a Monday), 1970-01-06 01:00 (a Tuesday) and
\* 1970-01-02 00:00 (a Friday)
AggPosts ==
    {PostWith("P1", 50, 345600), PostWith("P2", 10, 435600),
     PostWith("P3", 50, 435600), PostWith("P4", 30, 86400),
     PostWith("P5", 5, 345600)}

InitAgg ==
    /\ \E n \in 0..MaxAggPosts : posts_data \in [1..n -> AggPosts]
    /\ data = Null
    /\ result = <<>>
    /\ ext = "idle"
    /\ images = NoFiles
    /\ metadata_file = <<>>
    /\ DownloadIdle
    /\ AnalyzeIdle
    /\ panels = <<>>
    /\ panels_v2 = <<>>
    /\ prog = "instagram_analyzer"
    /\ args = NoArgs
    /\ ProfileIdle

NextAgg == analyze \/ generate_poster

SpecAgg == InitAgg /\ [][NextAgg]_vars

\* the weekdays of the collection, post by post
DaysOfPosts == [j \in 1..Len(posts_data) |-> day_name(posts_data[j].timestamp.val.i)]

\* the weekdays holding the highest post count
BusiestDays ==
    {d \in {DaysOfPosts[j] : j \in 1..Len(posts_data)} :
        \A j \in 1..Len(posts_data) :
            CountOf(DaysOfPosts, DaysOfPosts[j]) <= CountOf(DaysOfPosts, d)}

AlphabeticalDays ==
    <<"Friday", "Monday", "Saturday", "Sunday", "Thursday", "Tuesday", "Wednesday">>

AlphaRank(d) == CHOOSE j \in 1..7 : AlphabeticalDays[j] = d

FirstPost(d) == CHOOSE j \in 1..Len(posts_data) :
                    /\ DaysOfPosts[j] = d
                    /\ \A m \in 1..(j - 1) : DaysOfPosts[m] # d

IsTop3(row, keys) ==
    /\ Len(row) = (IF Len(keys) < 3 THEN Len(keys) ELSE 3)
    /\ \A j \in 1..Len(row) : row[j] \in 1..Len(keys)
    /\ \A j \in 1..(Len(row) - 1) :
           \/ keys[row[j]] > keys[row[j + 1]]
           \/ keys[row[j]] = keys[row[j + 1]] /\ row[j] < row[j + 1]
    /\ \A u \in 1..Len(keys) :
           (\A j \in 1..Len(row) : row[j] # u)
               => \A j \in 1..Len(row) :
                      \/ keys[row[j]] > keys[u]
                      \/ keys[row[j]] = keys[u] /\ row[j] < u

\* C7: each poster row holds the min(3, n) posts with the largest key (likes,
\* timestamp), largest first, posts of equal key by their position in the
\* collection.
C7_TopThreeStable ==
    panels # <<>>
        => /\ IsTop3(panels[1].top, Column(posts_data, "likes"))
           /\ IsTop3(panels[1].recent, Column(posts_data, "timestamp"))

C7_Witness ==
    /\ Column(posts_data, "likes") = <<50, 10, 50, 30, 5>>
    /\ panels # <<>>
    /\ panels[1].top = <<1, 3, 4>>

\* C13: analyze() leaves the collection as it is, and a second call on the
\* same collection returns the same report and leaves the same
\* analytics_report.json.
C13_AnalyzeIdempotent ==
    [][analyze
          => /\ posts_data' = posts_data
             /\ report_file' = report_file \/ report_file' = report'
             /\ an = "reported"
                   => /\ an' = "reported"
                      /\ report' = report
                      /\ report_file' = report_file]_vars

C13_Witness ==
    /\ report_writes = 2
    /\ an = "reported"
    /\ Len(posts_data) = 5
    /\ report = <<ReportOf(posts_data)>>
    /\ report_file = report

\* the fields of the report dict of lines 136-158
ReportFields ==
    {"total_posts", "first_post", "last_post", "total_likes", "total_comments",
     "avg_likes", "avg_comments", "top_post_likes", "posts_by_day",
     "most_active_day", "posts_by_hour", "avg_length", "hashtag_count"}

\* the part that holds: the report returned is the report written, and it
\* carries the fields of the report dict
ReportWrittenAsReturned ==
    an = "reported" => report_file = report /\ DOMAIN report[1] = ReportFields

\* C14: the report of a non-empty collection carries every field of the Report
\* data model, mean likes by month and the content-insight string included, and
\* the file holds the report returned.
C14_ReportHasAllFields ==
    an = "reported"
        => /\ ReportFields \cup {"likes_by_month", "content_insight"}
                  \subseteq DOMAIN report[1]
           /\ report_file = report

\* the characters that end a #token or @token
IsWordChar(c) == c \notin {" ", "#", "@", ",", "."}

\* the longest run of word characters at the head of chars
RECURSIVE TokenAt(_)
TokenAt(chars) ==
    IF chars = <<>> \/ ~IsWordChar(Head(chars)) THEN <<>>
    ELSE <<Head(chars)>> \o TokenAt(Tail(chars))

\* the tokens that follow the character mark in chars, case preserved, each
\* once
RECURSIVE TagsOf(_, _)
TagsOf(chars, mark) ==
    IF chars = <<>> THEN {}
    ELSE (IF Head(chars) = mark /\ TokenAt(Tail(chars)) # <<>>
          THEN {TokenAt(Tail(chars))} ELSE {})
         \cup TagsOf(Tail(chars), mark)

\* the strings of a JSON list of strings
TextsOf(list) == {list.kids[j].val.t : j \in 1..Len(list.kids)}

\* the post carries hashtags and mentions, those of its caption
CarriesTags(post) ==
    /\ {"hashtags", "mentions"} \subseteq DOMAIN post
    /\ TextsOf(post.hashtags) = TagsOf(post.caption.val.t, "#")
    /\ TextsOf(post.mentions) = TagsOf(post.caption.val.t, "@")

\* the part that holds: every post download_profile collects has the two fields
ProfilePostsHaveTagFields ==
    \A j \in 1..Len(pf_posts) : {"hashtags", "mentions"} \subseteq DOMAIN pf_posts[j]

\* C15: every post extract_from_response appends carries hashtags and mentions,
\* the sets of #tokens and @tokens of its caption, as the posts of
\* download_profile do.
C15_CapturedPostsCarryTags ==
    [][ExtractFromResponse
          => \A j \in (Len(posts_data) + 1)..Len(posts_data') :
                 CarriesTags(posts_data'[j])]_vars

\* C16: a raw node without a timestamp, or an edge without a node, is left
\* out of the collection without an exception, and a later analyze() does not
\* fail.
C16_MalformedNodeRejected ==
    /\ \A j \in 1..Len(posts_data) : IsInt(posts_data[j].timestamp)
    /\ ext # "raised"
    /\ an # "raised"

\* analyze() raised on a collection extract_from_response built
AnalyzeNeverFailsAfterExtract == ~(ext = "returned" /\ an = "raised")

(***************************************************************************)
(* SpecMain: one run of a program from its command line.  The analyzer's   *)
(* main() calls the methods in the order of lines 521-534; an exception    *)
(* that leaves a method is not caught and ends the run with a traceback.   *)
(* download_profile's main() calls download_profile once.                  *)
(***************************************************************************)
\* the command lines: --from-metadata names the metadata.json of the download
\* directory, json_file is absent or names a file that exists or does not
MainArgs ==
    [from_metadata : BOOLEAN, json_file : {"", "response.json", "missing.json"},
     analyze_only : BOOLEAN, poster : BOOLEAN]

\* the edges of the response file: two images and an image without
\* taken_at_timestamp
MainEdges ==
    {EdgeOf(CaptionedNode("A", Str("uA"), CaptionChars)),
     EdgeOf(CapturedNode("B", Str("uB"), FALSE)),
     EdgeOf(UndatedNode("T", Str("uT")))}

\* the response files: at most MaxEdges edges
MainDocs ==
    {Dict(<<"data">>, <<Dict(<<"count", "edges">>, <<Num(2), List(es)>>)>>) :
        es \in UNION {[1..n -> MainEdges] : n \in 0..MaxEdges}}

InitMain ==
    /\ prog \in {"instagram_analyzer", "download_profile"}
    /\ IF prog = "instagram_analyzer" THEN args \in MainArgs ELSE args = NoArgs
    /\ data = Null
    /\ result = <<>>
    /\ posts_data = <<>>
    /\ ext = "idle"
    /\ images \in InitialImages
    /\ metadata_file \in InitialMetadata
    /\ DownloadIdle
    /\ AnalyzeIdle
    /\ panels = <<>>
    /\ panels_v2 = <<>>
    /\ ProfileIdle

\* line 521, first branch
TakesMetadata == prog = "instagram_analyzer" /\ args.from_metadata

\* line 527, second branch
TakesResponse ==
    prog = "instagram_analyzer" /\ ~args.from_metadata /\ args.json_file # ""

\* line 523
MainLoad ==
    /\ prog = "instagram_analyzer"
    /\ TakesMetadata
    /\ ext = "idle"
    /\ load_from_metadata

\* line 529 on a file that exists
MainExtract ==
    /\ prog = "instagram_analyzer"
    /\ TakesResponse
    /\ args.json_file = "response.json"
    /\ ext = "idle"
    /\ \E doc \in MainDocs : extract_from_response(doc)
    /\ UNCHANGED <<data, result, diskVars, dlVars, anVars, posterVars, procVars, pfVars>>

\* line 529 on a file that does not exist
MainExtractMissing ==
    /\ prog = "instagram_analyzer"
    /\ TakesResponse
    /\ args.json_file = "missing.json"
    /\ ext = "idle"
    /\ extract_from_missing
    /\ UNCHANGED <<data, result, diskVars, dlVars, anVars, posterVars, procVars, pfVars>>

\* lines 535-540: neither source is named, the help is printed
MainHelp ==
    /\ prog = "instagram_analyzer"
    /\ ~TakesMetadata
    /\ ~TakesResponse
    /\ ext = "idle"
    /\ ext' = "no source"
    /\ UNCHANGED <<data, result, posts_data, diskVars, dlVars, anVars, posterVars,
                   procVars, pfVars>>

\* lines 530-531
MainDownload ==
    /\ TakesResponse
    /\ ext = "returned"
    /\ ~args.analyze_only
    /\ run = 0
    /\ DownloadStart

\* the collection step of the branch taken is over: line 523, or lines
\* 529-531
Collected ==
    \/ TakesMetadata /\ ext = "loaded"
    \/ /\ TakesResponse
       /\ ext = "returned"
       /\ args.analyze_only \/ (run = 1 /\ dl_pc = "idle")

\* lines 524 and 532
MainAnalyze ==
    /\ prog = "instagram_analyzer"
    /\ Collected
    /\ an = "idle"
    /\ analyze

\* lines 525-526 and 533-534
MainPoster ==
    /\ prog = "instagram_analyzer"
    /\ Collected
    /\ an \in {"no data", "reported"}
    /\ args.poster
    /\ panels = <<>>
    /\ generate_poster

NextMain ==
    \/ MainLoad
    \/ MainExtract
    \/ MainExtractMissing
    \/ MainHelp
    \/ MainDownload
    \/ DownloadSkip
    \/ DownloadFetched
    \/ DownloadFailed
    \/ DownloadFinish
    \/ MainAnalyze
    \/ MainPoster
    \/ ProfileRun
    \/ ProfileNotFound
    \/ ProfileSkipVideo
    \/ ProfileDownloaded
    \/ ProfileFailed
    \/ ProfileSourceRaises
    \/ ProfileFinish

SpecMain == InitMain /\ [][NextMain]_vars

\* the command line names a source that is not there
SourceMissing ==
    \/ TakesResponse /\ args.json_file = "missing.json"
    \/ TakesMetadata /\ metadata_file = <<>>

\* download_profile ended at Profile.from_username
ProfileMissing == pf_pc = "error" /\ pf_i = 0

C18_MetadataSavedBeforeAnalyze ==
    (TakesResponse /\ ext = "returned" /\ an # "idle") =>
        metadata_file = <<json_dump(ListOfPosts(posts_data))>>

\* without --analyze-only the metadata is on disk when analyze() starts
MetadataSavedAfterDownload ==
    (TakesResponse /\ ext = "returned" /\ an # "idle" /\ ~args.analyze_only) =>
        metadata_file = <<json_dump(ListOfPosts(posts_data))>>

\* C19: after any sequence of extract_from_response and load_from_metadata
\* calls on one analyzer, no two posts of posts_data share a shortcode.
C19_ShortcodesUnique ==
    \A i, j \in 1..Len(posts_data) :
        posts_data[i].shortcode = posts_data[j].shortcode => i = j

(***************************************************************************)
(* SpecInsight: the two posters drawn from one collection of at most       *)
(* MaxInsightPosts posts, which download_images saved to metadata.json.    *)
(***************************************************************************)
MaxInsightPosts == 3

\* posts whose likes lie on, between and beyond the thresholds, made on
\* 1970-01-05, 1970-01-06 01:00, 1970-01-19 and 1970-01-31
InsightPosts ==
    {PostWith("L1", 500, 345600), PostWith("L2", 1000, 345600),
     PostWith("L3", 7000, 435600), PostWith("L4", 10000, 1555200),
     PostWith("L5", 20000, 2592000)}

InitInsight ==
    /\ \E n \in 0..MaxInsightPosts : posts_data \in [1..n -> InsightPosts]
    /\ metadata_file = <<json_dump(ListOfPosts(posts_data))>>
    /\ data = Null
    /\ result = <<>>
    /\ ext = "returned"
    /\ images = NoFiles
    /\ DownloadIdle
    /\ AnalyzeIdle
    /\ panels = <<>>
    /\ panels_v2 = <<>>
    /\ prog = "instagram_analyzer"
    /\ args = NoArgs
    /\ ProfileIdle

NextInsight == generate_poster \/ create_poster

SpecInsight == InitInsight /\ [][NextInsight]_vars

\* the tier a level text names
TierOf(text) ==
    CASE text \in {"High-influence creator", "High-engagement"} -> "high"
      [] text \in {"Growing creator", "Growing"} -> "mid"
      [] text \in {"Emerging creator", "Emerging"} -> "low"

\* the tier by the thresholds 10,000 and 1,000, both inclusive
InclusiveTier(posts) ==
    LET likes == Column(posts, "likes")
    IN IF Sum(likes) >= 10000 * Len(likes) THEN "high"
       ELSE IF Sum(likes) >= 1000 * Len(likes) THEN "mid"
       ELSE "low"

\* C20: both implementations put a collection in the tier "high" exactly when
\* its mean likes are >= 10,000, "mid" exactly when they are >= 1,000 and
\* < 10,000, and "low" otherwise, so they assign the same tier.
C20_TiersInclusiveAndEqual ==
    /\ panels # <<>> => TierOf(panels[1].level) = InclusiveTier(posts_data)
    /\ panels_v2 # <<>> => TierOf(panels_v2[1].level) = InclusiveTier(posts_data)

\* both implementations agree with the claim when the mean likes are below
\* 1,000 or above 10,000
TiersAgreeOffThresholds ==
    LET likes == Column(posts_data, "likes")
    IN (Sum(likes) < 1000 * Len(likes) \/ Sum(likes) > 10000 * Len(likes)) =>
          C20_TiersInclusiveAndEqual

\* the analyzer's own thresholds are exclusive
AnalyzerTierExclusive ==
    panels # <<>> =>
        LET likes == Column(posts_data, "likes")
        IN TierOf(panels[1].level) =
              IF Sum(likes) > 10000 * Len(likes) THEN "high"
              ELSE IF Sum(likes) > 1000 * Len(likes) THEN "mid"
              ELSE "low"

\* the qualifier by the mean days between posts: the span in days divided by
\* the number of gaps between consecutive posts
CadenceByGaps(posts) ==
    LET gaps == Len(posts) - 1
    IN IF SpanDays(posts) < 2 * gaps THEN "frequent"
       ELSE IF SpanDays(posts) < 7 * gaps THEN "regular"
       ELSE "measured"

\* C21: for every collection of at least two posts the insight ends with
\* exactly one posting-cadence qualifier, chosen from the span in days divided
\* by the number of gaps: "frequent" below 2, "regular" from 2 and below 7,
\* "measured" otherwise.
C21_CadenceByMeanGap ==
    (panels # <<>> /\ Len(posts_data) >= 2) =>
        panels[1].cadence = CadenceByGaps(posts_data)

\* from three posts on the insight ends with one qualifier
CadenceFromThreePosts ==
    (panels # <<>> /\ Len(posts_data) >= 3) =>
        panels[1].cadence \in {"frequent", "regular", "measured"}

(***************************************************************************)
(* SpecDeep: the edge locator under the interpreter's recursion limit, on  *)
(* structures nested up to MaxChain containers deep.                       *)
(***************************************************************************)
MaxChain == 4

\* the innermost values: a scalar, an empty sequence, a mapping with "edges"
ChainEnds ==
    {Str("x"), EmptyList, Dict(<<"edges">>, <<List(<<EdgeOf(ImageNode("A"))>>)>>)}

\* one more container around x: a sequence, a mapping, and a mapping whose
\* "edges" key comes before x
ChainLinks(x) ==
    {List(<<x>>), Dict(<<"a">>, <<x>>),
     Dict(<<"edges", "a">>, <<List(<<EdgeOf(ImageNode("B"))>>), x>>)}

\* ChainsOfDepth[n]: n containers around an innermost value
ChainsOfDepth[n \in 0..MaxChain] ==
    IF n = 0 THEN ChainEnds
    ELSE UNION {ChainLinks(x) : x \in ChainsOfDepth[n - 1]}

\* the containers around the innermost value of a chain
RECURSIVE LinksOf(_)
LinksOf(d) ==
    IF d \in ChainEnds THEN 0 ELSE 1 + LinksOf(d.kids[Len(d.kids)])

InitDeep ==
    /\ \E n \in 0..MaxChain : data \in ChainsOfDepth[n]
    /\ result = <<>>
    /\ posts_data = <<>>
    /\ ext = "idle"
    /\ images = NoFiles
    /\ metadata_file = <<>>
    /\ DownloadIdle
    /\ AnalyzeIdle
    /\ panels = <<>>
    /\ panels_v2 = <<>>
    /\ prog = "instagram_analyzer"
    /\ args = NoArgs
    /\ ProfileIdle

\* _find_edges(data) called in the first of the frames left
FindEdgesLimited ==
    /\ result = <<>>
    /\ result' = <<FindEdgesAt(data, 1)>>
    /\ UNCHANGED <<data, posts_data, ext, diskVars, dlVars, anVars, posterVars, procVars, pfVars>>

NextDeep == FindEdgesLimited

SpecDeep == InitDeep /\ [][NextDeep]_vars

\* C22: on an acyclic structure _find_edges returns a result when the
\* structure is nested less deep than the ceiling, and raises the too-deep
\* condition when it is nested deeper than the ceiling.
C22_DeepStructureRaises ==
    result # <<>> =>
        /\ LinksOf(data) < RecursionLimit => result[1] # RecursionError
        /\ LinksOf(data) > RecursionLimit => result[1] = RecursionError

\* below the limit the call returns, and whenever it returns it returns what
\* the search without a limit finds
ShallowStructureReturns ==
    result # <<>> =>
        /\ LinksOf(data) < RecursionLimit => result[1] # RecursionError
        /\ result[1] # RecursionError => result[1] = _find_edges(data)

\* a chain of mappings and sequences only, deeper than the limit, raises
PlainDeepChainRaises ==
    (result # <<>> /\ LinksOf(data) > RecursionLimit /\ EdgesInOrder(data) = <<>>)
        => result[1] = RecursionError

(***************************************************************************)
(* SpecPanel: the two posters drawn from a collection of at most           *)
(* MaxPanelPosts posts over a download directory that holds the images of  *)
(* some of them.                                                           *)
(***************************************************************************)
MaxPanelPosts == 2

\* posts whose shortcodes are contained in another shortcode ("A" in "AB")
\* and in the directory path ("load" in "downloads")
PanelPosts ==
    {PostWith("A", 50, 345600), PostWith("AB", 30, 435600),
     PostWith("load", 10, 86400)}

\* the download directories: the images of any of the three posts
PanelDirs ==
    {[n \in names |-> "bytes of " \o n] : names \in SUBSET {"A.jpg", "AB.jpg", "load.jpg"}}

InitPanel ==
    /\ \E n \in 0..MaxPanelPosts : posts_data \in [1..n -> PanelPosts]
    /\ images \in PanelDirs
    /\ metadata_file = <<json_dump(ListOfPosts(posts_data))>>
    /\ data = Null
    /\ result = <<>>
    /\ ext = "returned"
    /\ DownloadIdle
    /\ AnalyzeIdle
    /\ panels = <<>>
    /\ panels_v2 = <<>>
    /\ prog = "instagram_analyzer"
    /\ args = NoArgs
    /\ ProfileIdle

NextPanel == generate_poster \/ create_poster

SpecPanel == InitPanel /\ [][NextPanel]_vars

\* the image asset of exactly this post's shortcode, <<>> when there is none
OwnImage(post) ==
    IF Exists(FileName(post)) THEN <<PathOf(FileName(post))>> ELSE <<>>

\* every panel of the poster shows the own image of its post, or the
\* placeholder when there is none
PanelsShowOwnImages(poster) ==
    /\ \A j \in 1..Len(poster.top) :
          poster.top_images[j] = OwnImage(posts_data[poster.top[j]])
    /\ \A j \in 1..Len(poster.recent) :
          poster.recent_images[j] = OwnImage(posts_data[poster.recent[j]])

\* C23: each panel of a poster is bound to the image asset of exactly its
\* post's shortcode when that asset exists and to the placeholder otherwise,
\* never to the asset of another shortcode.
C23_PanelBoundToOwnImage ==
    /\ panels # <<>> => PanelsShowOwnImages(panels[1])
    /\ panels_v2 # <<>> => PanelsShowOwnImages(panels_v2[1])

\* a panel shows the placeholder exactly when no image path contains its
\* post's shortcode, and a path it shows contains the shortcode
PanelPathContainsShortcode ==
    panels # <<>> =>
        \A j \in 1..Len(panels[1].top) :
            LET code == ShortcodeText(posts_data[panels[1].top[j]])
                shown == panels[1].top_images[j]
            IN /\ shown = <<>> <=> \A path \in ImagePaths : ~Contains(path, code)
               /\ shown # <<>> => shown[1] \in ImagePaths /\ Contains(shown[1], code)

\* the posts download_profile collects, read off its output: the metadata of
\* the source posts whose line says "downloaded", in source order
RECURSIVE CollectedFrom(_, _)
CollectedFrom(src, lines) ==
    IF lines = <<>> THEN <<>>
    ELSE (IF Head(lines)[2] = "downloaded" THEN <<PostData(Head(src))>> ELSE <<>>)
         \o CollectedFrom(Tail(src), Tail(lines))

\* C24: download_profile with a limit max_posts = n > 0 collects, returns and
\* persists at most n posts, each of them non-video and downloaded; skipped
\* videos and failed downloads do not count toward the limit, nothing is
\* downloaded once n posts are collected, and the metadata.json it writes
\* holds exactly the posts collected, in source order.
C24_LimitHolds ==
    /\ [](max_posts > 0 =>
            /\ Len(pf_posts) <= max_posts
            /\ count = Len(pf_posts)
            /\ Len(pf_log) = pf_i - 1
            /\ pf_posts = CollectedFrom(pf_src, pf_log)
            /\ \A j \in 1..Len(pf_posts) : ~Truthy(pf_posts[j].is_video)
            /\ pf_pc = "done" => metadata_file = <<json_dump(ListOfPosts(pf_posts))>>)
    /\ [][(max_posts > 0 /\ Len(pf_posts) >= max_posts) =>
            UNCHANGED <<images, pf_posts, pf_log, count>>]_vars

\* a run with limit 1 over a source of two images: the first download fails,
\* the second is collected
C24_Witness ==
    /\ pf_pc = "done"
    /\ max_posts = 1
    /\ Len(pf_src) = 2
    /\ Len(pf_log) = 2 /\ pf_log[1][2] = "failed" /\ pf_log[2][2] = "downloaded"
    /\ pf_posts = <<PostData(pf_src[2])>>
    /\ metadata_file = <<json_dump(ListOfPosts(pf_posts))>>

=============================================================================
